---------------------------- MODULE Spec2Model ----------------------------
(***************************************************************************)
(* ZipServer: the ZIP indexing engine (utils/index_zip.rs), the split      *)
(* pipeline (app/split.rs) and the serve-time file database and request    *)
(* resolver (app/serve.rs).                                                *)
(*                                                                         *)
(* Strings are sequences of one-character strings, so that prefix tests,   *)
(* separators and lexicographic order are those of the Rust code.          *)
(***************************************************************************)
EXTENDS Integers, Sequences, FiniteSets, TLC

(***************************************************************************)
(* Bounds of the model.                                                    *)
(***************************************************************************)
MaxEntries == 2

MaxCoreNum == 2

MaxChannelSize == 2

NoValue == "None"

(***************************************************************************)
(* Strings.                                                                *)
(***************************************************************************)
\* Byte value of a character: Rust compares String values byte-wise.
Ascii(c) ==
  CASE c = "-" -> 45 [] c = "." -> 46 [] c = "/" -> 47
    [] c = "0" -> 48 [] c = "1" -> 49 [] c = "2" -> 50 [] c = "3" -> 51
    [] c = "4" -> 52 [] c = "5" -> 53 [] c = "6" -> 54 [] c = "7" -> 55
    [] c = "8" -> 56 [] c = "9" -> 57 [] c = "\\" -> 92
    [] c = "a" -> 97 [] c = "b" -> 98 [] c = "c" -> 99 [] c = "d" -> 100
    [] c = "e" -> 101 [] c = "h" -> 104 [] c = "i" -> 105 [] c = "j" -> 106
    [] c = "l" -> 108 [] c = "m" -> 109 [] c = "n" -> 110 [] c = "p" -> 112
    [] c = "r" -> 114 [] c = "s" -> 115 [] c = "t" -> 116 [] c = "u" -> 117
    [] c = "x" -> 120 [] c = "y" -> 121 [] c = "z" -> 122

\* Ord for String: lexicographic on bytes, a proper prefix is smaller.
RECURSIVE StrLess(_, _)
StrLess(s, t) ==
  IF t = <<>> THEN FALSE
  ELSE IF s = <<>> THEN TRUE
  ELSE IF s[1] = t[1] THEN StrLess(Tail(s), Tail(t))
  ELSE Ascii(s[1]) < Ascii(t[1])

StartsWith(s, p) == Len(p) <= Len(s) /\ SubSeq(s, 1, Len(p)) = p

Digit(d) == <<"0", "1", "2", "3", "4", "5", "6", "7", "8", "9">>[d + 1]

\* format!("{}", n) for an unsigned integer: decimal, no padding.
RECURSIVE Dec(_)
Dec(n) == IF n < 10 THEN <<Digit(n)>> ELSE Dec(n \div 10) \o <<Digit(n % 10)>>

\* The keys of an ordered map, ascending (BTreeMap::iter).
RECURSIVE SortedKeys(_)
SortedKeys(S) ==
  IF S = {} THEN <<>>
  ELSE LET m == CHOOSE k \in S : \A o \in S \ {k} : StrLess(k, o)
       IN <<m>> \o SortedKeys(S \ {m})

SeqToSet(s) == {s[i] : i \in 1..Len(s)}

SeqsUpTo(S, n) == UNION {[1..k -> S] : k \in 0..n}

(***************************************************************************)
(* Archive entries: name, uncompressed content and modification time.      *)
(* A content is its length and an identity among contents of that length.  *)
(***************************************************************************)
Entry(n, len, id, t) == [name |-> n, bytes |-> [len |-> len, id |-> id], time |-> t]

EntrySize(e) == e.bytes.len

\* Two names, sizes and times on both sides of a decimal digit boundary,
\* entries that share a name, and entries that share name and content.
EntryPool ==
  { Entry(<<"a">>, 9, 0, 10),
    Entry(<<"b">>, 10, 0, 9),
    Entry(<<"a">>, 9, 1, 10),
    Entry(<<"a">>, 9, 0, 9) }

VARIABLES
  \* split: the options, the input archive and the pipeline
  input, sort_by, core_num, channel_size,
  file_map, index_i, split_pc, chan, sent, shut_sent, receivers, received,
  \* indexing one archive: index_zip_single_thread, then index_zip_multi_thread
  archive, file_opens, unreadable, worker, index_pc,
  st_i, st_calls, st_exec, st_result,
  thread_count, file_per_thread, children, zip_lock, cb_lock,
  mt_calls, requested, mt_result,
  \* serve: the host tree, the options, create_file_db and the resolver
  tree, depth, index_core_num, landing_page, land_with_path,
  serve_pc, walk_stack, host_visited, zip_visited,
  file_db, first_writer, zip_handles, zip_files, workers,
  zip_cb_lock, index_dir_result, req, resp

splitVars ==
  <<input, sort_by, core_num, channel_size,
    file_map, index_i, split_pc, chan, sent, shut_sent, receivers, received>>

indexVars ==
  <<archive, file_opens, unreadable, worker, index_pc, st_i, st_calls, st_exec, st_result,
    thread_count, file_per_thread, children, zip_lock, cb_lock,
    mt_calls, requested, mt_result>>

\* What launch is given: the served tree and the options.
serveOptions == <<tree, depth, index_core_num, landing_page, land_with_path>>

serveVars ==
  <<serveOptions, serve_pc, walk_stack, host_visited, zip_visited,
    file_db, first_writer, zip_handles, zip_files, workers,
    zip_cb_lock, index_dir_result, req, resp>>

vars == <<splitVars, indexVars, serveVars>>

(***************************************************************************)
(* The split pipeline.                                                     *)
(***************************************************************************)
SortPolicies == {"name", "size", "time", "other"}

\* file_indexer's match on the sort field.
SortKey(e, policy) ==
  CASE policy = "name" -> e.name
    [] policy = "size" -> Dec(EntrySize(e)) \o <<"-">> \o e.name
    [] policy = "time" -> Dec(e.time) \o <<"-">> \o e.name

\* BTreeMap::insert: an existing value under the key is replaced.
MapInsert(m, k, v) == [x \in DOMAIN m \cup {k} |-> IF x = k THEN v ELSE m[x]]

EmptyMap == [x \in {} |-> 0]

FileSend(i) == [type |-> "FileSend", name |-> input[i + 1].name,
                bytes |-> input[i + 1].bytes, index |-> i]

Shutdown == [type |-> "Shutdown"]

\* A producer that walks the map from its last key to its first.
SendOrderReversed == LET ks == SortedKeys(DOMAIN file_map)
                     IN [p \in 1..Len(ks) |-> file_map[ks[Len(ks) + 1 - p]]]

\* The entry indices in the order file_sender visits them.
SendOrder == LET ks == SortedKeys(DOMAIN file_map)
             IN [p \in 1..Len(ks) |-> file_map[ks[p]]]

\* A producer that sends one Shutdown too few.
ShutdownCountShort == core_num - 1

\* for _ in 0..core_num: one Shutdown per receiver.
ShutdownCount == core_num

Consumers == 0..(core_num - 1)

\* The variables of a part that is not running.
SplitIdle ==
  /\ input = <<>> /\ sort_by = "name" /\ core_num = 0 /\ channel_size = 0
  /\ file_map = EmptyMap /\ index_i = 0 /\ split_pc = "idle" /\ chan = <<>>
  /\ sent = 0 /\ shut_sent = 0 /\ receivers = <<>> /\ received = <<>>

IndexIdle ==
  /\ archive = <<>> /\ file_opens = TRUE /\ unreadable = {} /\ worker = 0 /\ index_pc = "idle"
  /\ st_i = 0 /\ st_calls = <<>> /\ st_exec = <<>> /\ st_result = NoValue
  /\ thread_count = 0 /\ file_per_thread = 0 /\ children = <<>>
  /\ zip_lock = {} /\ cb_lock = {}
  /\ mt_calls = <<>> /\ requested = <<>> /\ mt_result = NoValue

ServeIdle ==
  /\ tree = {} /\ depth = 0 /\ index_core_num = 0 /\ serve_pc = "idle"
  /\ landing_page = <<>> /\ land_with_path = FALSE
  /\ host_visited = {} /\ zip_visited = {}
  /\ zip_cb_lock = {} /\ index_dir_result = NoValue
  /\ walk_stack = <<>> /\ file_db = EmptyMap /\ first_writer = EmptyMap
  /\ zip_handles = {} /\ zip_files = <<>> /\ workers = <<>>
  /\ req = <<>> /\ resp = [kind |-> "None", ctype |-> "", body |-> <<>>, path |-> <<>>, anchors |-> <<>>]

SplitInit ==
  /\ input \in SeqsUpTo(EntryPool, MaxEntries)
  /\ sort_by \in SortPolicies
  /\ core_num \in 0..MaxCoreNum
  /\ channel_size \in 0..MaxChannelSize
  /\ file_map = EmptyMap
  /\ index_i = 0
  /\ split_pc = "indexing"
  /\ chan = <<>>
  /\ sent = 0
  /\ shut_sent = 0
  /\ receivers = [c \in Consumers |-> [pc |-> "unspawned", out |-> <<>>, shutdowns |-> 0]]
  /\ received = <<>>

\* One callback of the index pass (index_zip_single_thread's loop body).
IndexerCallback ==
  /\ split_pc = "indexing"
  /\ index_i < Len(input)
  /\ IF sort_by \in {"name", "size", "time"}
     THEN /\ file_map' = MapInsert(file_map, SortKey(input[index_i + 1], sort_by), index_i)
          /\ index_i' = index_i + 1
          /\ UNCHANGED split_pc
     ELSE /\ split_pc' = "exit"
          /\ UNCHANGED <<file_map, index_i>>
  /\ UNCHANGED <<indexVars, serveVars>>
  /\ UNCHANGED <<input, sort_by, core_num, channel_size, chan, sent, shut_sent, receivers, received>>

\* The index pass is over: the channel is made and the receivers are spawned.
SpawnReceivers ==
  /\ split_pc = "indexing"
  /\ index_i = Len(input)
  /\ split_pc' = "sending"
  /\ receivers' = [c \in Consumers |-> [pc |-> "init", out |-> <<>>, shutdowns |-> 0]]
  /\ UNCHANGED <<indexVars, serveVars>>
  /\ UNCHANGED <<input, sort_by, core_num, channel_size, file_map, index_i, chan, sent, shut_sent, received>>

\* What the producer sends next.
NextMessage ==
  IF sent < Len(SendOrder) THEN FileSend(SendOrder[sent + 1]) ELSE Shutdown

SenderHasMessage ==
  /\ split_pc = "sending"
  /\ sent < Len(SendOrder) \/ shut_sent < ShutdownCount

SenderAdvance ==
  IF sent < Len(SendOrder)
  THEN sent' = sent + 1 /\ UNCHANGED shut_sent
  ELSE shut_sent' = shut_sent + 1 /\ UNCHANGED sent

\* tx.send on a channel with room.
Send ==
  /\ SenderHasMessage
  /\ Len(chan) < channel_size
  /\ chan' = Append(chan, NextMessage)
  /\ SenderAdvance
  /\ UNCHANGED <<indexVars, serveVars>>
  /\ UNCHANGED <<input, sort_by, core_num, channel_size, file_map, index_i, split_pc, receivers, received>>

\* A receiver that takes a FileSend and writes nothing.
HandleDropsFile(c, msg) ==
  IF msg.type = "FileSend"
  THEN UNCHANGED receivers
  ELSE receivers' = [receivers EXCEPT ![c].pc = "finish", ![c].shutdowns = @ + 1]

\* What a receiver does with a message it has taken.
Handle(c, msg) ==
  IF msg.type = "FileSend"
  THEN receivers' = [receivers EXCEPT ![c].out = Append(@, [name |-> msg.name, bytes |-> msg.bytes, index |-> msg.index])]
  ELSE receivers' = [receivers EXCEPT ![c].pc = "finish", ![c].shutdowns = @ + 1]

\* File::create of the receiver's output archive.
ReceiverCreate(c) ==
  /\ receivers[c].pc = "init"
  /\ receivers' = [receivers EXCEPT ![c].pc = "loop"]
  /\ UNCHANGED <<indexVars, serveVars>>
  /\ UNCHANGED <<input, sort_by, core_num, channel_size, file_map, index_i, split_pc, chan, sent, shut_sent, received>>

\* rx.recv on a channel that holds a message.
Receive(c) ==
  /\ receivers[c].pc = "loop"
  /\ chan # <<>>
  /\ chan' = Tail(chan)
  /\ received' = Append(received, Head(chan))
  /\ Handle(c, Head(chan))
  /\ UNCHANGED <<indexVars, serveVars>>
  /\ UNCHANGED <<input, sort_by, core_num, channel_size, file_map, index_i, split_pc, sent, shut_sent>>

\* A zero-capacity channel: send and recv meet.
Rendezvous(c) ==
  /\ channel_size = 0
  /\ SenderHasMessage
  /\ receivers[c].pc = "loop"
  /\ Handle(c, NextMessage)
  /\ received' = Append(received, NextMessage)
  /\ SenderAdvance
  /\ UNCHANGED <<indexVars, serveVars>>
  /\ UNCHANGED <<input, sort_by, core_num, channel_size, file_map, index_i, split_pc, chan>>

\* archive_file.finish()
ReceiverFinish(c) ==
  /\ receivers[c].pc = "finish"
  /\ receivers' = [receivers EXCEPT ![c].pc = "done"]
  /\ UNCHANGED <<indexVars, serveVars>>
  /\ UNCHANGED <<input, sort_by, core_num, channel_size, file_map, index_i, split_pc, chan, sent, shut_sent, received>>

\* file_sender has returned.
SenderDone ==
  /\ split_pc = "sending"
  /\ sent = Len(SendOrder)
  /\ shut_sent = ShutdownCount
  /\ split_pc' = "joining"
  /\ UNCHANGED <<indexVars, serveVars>>
  /\ UNCHANGED <<input, sort_by, core_num, channel_size, file_map, index_i, chan, sent, shut_sent, receivers, received>>

\* Every join handle has been awaited: "Split completed".  `i.await` is
\* Err only for a task that panicked or was cancelled; a receiver that
\* returned Err joins as Ok(Err(..)).
JoinReceivers ==
  /\ split_pc = "joining"
  /\ \A c \in Consumers : receivers[c].pc \in {"done", "failed"}
  /\ split_pc' = "completed"
  /\ UNCHANGED <<indexVars, serveVars>>
  /\ UNCHANGED <<input, sort_by, core_num, channel_size, file_map, index_i, chan, sent, shut_sent, receivers, received>>

SplitNext ==
  \/ IndexerCallback
  \/ SpawnReceivers
  \/ Send
  \/ SenderDone
  \/ JoinReceivers
  \/ \E c \in Consumers : ReceiverCreate(c)
  \/ \E c \in Consumers : Receive(c)
  \/ \E c \in Consumers : Rendezvous(c)
  \/ \E c \in Consumers : ReceiverFinish(c)

SplitSpecInit == SplitInit /\ IndexIdle /\ ServeIdle

SplitSpec == SplitSpecInit /\ [][SplitNext]_vars

\* Termination does not look at what the entries hold: two entries, which
\* may repeat, give every number of messages up to MaxEntries.
TerminationPool == {Entry(<<"a">>, 9, 0, 10), Entry(<<"b">>, 10, 0, 9)}

SplitFairInit == SplitSpecInit /\ \A i \in 1..Len(input) : input[i] \in TerminationPool

\* The scheduler runs some task that can run.
SplitFairSpec == SplitFairInit /\ [][SplitNext]_vars /\ WF_vars(SplitNext)

\* File::create of the receiver's output archive fails: the receiver
\* returns Err and its clone of rx is dropped.
ReceiverCreateFails(c) ==
  /\ receivers[c].pc = "init"
  /\ receivers' = [receivers EXCEPT ![c].pc = "failed"]
  /\ UNCHANGED <<indexVars, serveVars>>
  /\ UNCHANGED <<input, sort_by, core_num, channel_size, file_map, index_i, split_pc, chan, sent, shut_sent, received>>

\* The receiver takes a FileSend and start_file or write_all fails: the
\* message is gone and the receiver returns Err.
ReceiverWriteFails(c) ==
  /\ receivers[c].pc = "loop"
  /\ \/ /\ chan # <<>>
        /\ Head(chan).type = "FileSend"
        /\ chan' = Tail(chan)
        /\ received' = Append(received, Head(chan))
        /\ UNCHANGED <<sent, shut_sent>>
     \/ /\ channel_size = 0
        /\ SenderHasMessage
        /\ NextMessage.type = "FileSend"
        /\ received' = Append(received, NextMessage)
        /\ SenderAdvance
        /\ UNCHANGED chan
  /\ receivers' = [receivers EXCEPT ![c].pc = "failed"]
  /\ UNCHANGED <<indexVars, serveVars>>
  /\ UNCHANGED <<input, sort_by, core_num, channel_size, file_map, index_i, split_pc>>

\* archive_file.finish() fails after the receiver's Shutdown.
ReceiverFinishFails(c) ==
  /\ receivers[c].pc = "finish"
  /\ receivers' = [receivers EXCEPT ![c].pc = "failed"]
  /\ UNCHANGED <<indexVars, serveVars>>
  /\ UNCHANGED <<input, sort_by, core_num, channel_size, file_map, index_i, split_pc, chan, sent, shut_sent, received>>

\* The split run with receivers whose I/O may fail.  split_archive_files
\* keeps the rx it cloned from, so the channel is never disconnected.
SplitFaultNext ==
  \/ SplitNext
  \/ \E c \in Consumers : ReceiverCreateFails(c)
  \/ \E c \in Consumers : ReceiverWriteFails(c)
  \/ \E c \in Consumers : ReceiverFinishFails(c)

SplitFaultSpec == SplitSpecInit /\ [][SplitFaultNext]_vars

(***************************************************************************)
(* Claims about the split pipeline.                                        *)
(***************************************************************************)
Pair(x) == <<x.name, x.bytes>>

InputPairs == {Pair(input[i]) : i \in 1..Len(input)}

OutputSlots == {<<c, j>> \in Consumers \X (1..MaxEntries + 1) : j <= Len(receivers[c].out)}

OutputPairs == {Pair(receivers[s[1]].out[s[2]]) : s \in OutputSlots}

InputCount(p) == Cardinality({i \in 1..Len(input) : Pair(input[i]) = p})

OutputCount(p) == Cardinality({s \in OutputSlots : Pair(receivers[s[1]].out[s[2]]) = p})

\* C2: once the split has completed, the multiset of (name, bytes) pairs over
\* the output archives equals that of the input archive (stated for N >= 1).
C2_RoundTrip ==
  (split_pc = "completed" /\ core_num >= 1) =>
    \A p \in InputPairs \cup OutputPairs : InputCount(p) = OutputCount(p)

InChannel(i) == Cardinality({k \in 1..Len(chan) : chan[k].type = "FileSend" /\ chan[k].index = i})

Written(i) == Cardinality({s \in OutputSlots : receivers[s[1]].out[s[2]].index = i})

SentIndices == {SendOrder[p] : p \in 1..sent}

Precedes(a, b, policy) ==
  CASE policy = "name" -> StrLess(a.name, b.name)
    [] policy = "size" -> \/ EntrySize(a) < EntrySize(b)
                          \/ EntrySize(a) = EntrySize(b) /\ StrLess(a.name, b.name)
    [] policy = "time" -> \/ a.time < b.time
                          \/ a.time = b.time /\ StrLess(a.name, b.name)

\* C8: the order of the SortKey strings in file_map is the intended order of
\* the entries they stand for.
C8_SortKeyOrder ==
  sort_by \in {"name", "size", "time"} =>
    \A k1, k2 \in DOMAIN file_map :
      StrLess(k1, k2) <=> Precedes(input[file_map[k1] + 1], input[file_map[k2] + 1], sort_by)

SplitCompleted ==
  /\ split_pc = "completed"
  /\ sent = Len(SendOrder)
  /\ shut_sent = core_num
  /\ chan = <<>>
  /\ \A c \in Consumers : receivers[c].pc = "done" /\ receivers[c].shutdowns = 1

\* C10 as amended: with at least one consumer and a valid sort field, for
\* every channel capacity the run reaches completion, and at completion the
\* producer has sent every entry of the sort map and N Shutdowns, and every
\* consumer has taken exactly one Shutdown and finished its archive.
C10_Terminates == <>(SplitCompleted \/ core_num = 0 \/ sort_by = "other")

\* A completed run over a channel of capacity 1 with two consumers and
\* more entries than the channel holds.
C10_Witness ==
  /\ SplitCompleted
  /\ channel_size = 1
  /\ core_num = 2
  /\ sent >= 2

\* C10 as stated, for every N: the run is never stuck short of its end.
C10_Original == split_pc \in {"completed", "exit"} \/ ENABLED SplitNext

(***************************************************************************)
(* Indexing one archive: index_zip_single_thread and                       *)
(* index_zip_multi_thread run one after the other on the same archive,     *)
(* with a callback that records (index, name, size).                       *)
(***************************************************************************)
MaxIndexEntries == 4

MaxWorker == 3

IndexPool == {Entry(<<"a">>, 9, 0, 10), Entry(<<"b">>, 10, 0, 9)}

Min(a, b) == IF a < b THEN a ELSE b

\* What the recording callback keeps of entry i.
CallTuple(i) == <<i, archive[i + 1].name, EntrySize(archive[i + 1])>>

\* A by_index that succeeds on every index in range.
ReadableInRange(i) == i < Len(archive)

\* by_index(i) succeeds: the index is in range and the entry can be read.
Readable(i) == i < Len(archive) /\ i \notin unreadable

IndexInit ==
  /\ file_opens \in BOOLEAN
  /\ archive \in IF file_opens THEN SeqsUpTo(IndexPool, MaxIndexEntries) ELSE {<<>>}
  /\ unreadable \in {{}} \cup {{i} : i \in 0..(Len(archive) - 1)}
  /\ worker \in 0..MaxWorker
  /\ index_pc = "st"
  /\ st_i = 0 /\ st_calls = <<>> /\ st_exec = <<>> /\ st_result = NoValue
  /\ thread_count = 0 /\ file_per_thread = 0 /\ children = <<>>
  /\ zip_lock = {} /\ cb_lock = {}
  /\ mt_calls = <<>> /\ requested = <<>> /\ mt_result = NoValue

\* The file argument of the indexing functions.
ArchivePath == <<"a", ".", "z", "i", "p">>

\* An invocation that carries index 0 whatever the entry.
ExecArgsFirstIndex(i, file) == [index |-> 0, zip_file_path |-> file]

\* What exec is handed besides the entry: its index and the archive's path.
ExecArgs(i, file) == [index |-> i, zip_file_path |-> file]

\* One turn of index_zip_single_thread's loop, or its return.
SingleThreadStep ==
  /\ index_pc = "st"
  /\ IF ~file_opens  \* File::open(file)? or ZipArchive::new(..)? fails
     THEN /\ st_result' = "err"
          /\ index_pc' = "mt"
          /\ UNCHANGED <<st_i, st_calls, st_exec>>
     ELSE IF st_i < Len(archive)
     THEN IF Readable(st_i)
          THEN /\ st_calls' = Append(st_calls, CallTuple(st_i))
               /\ st_exec' = Append(st_exec, ExecArgs(st_i, ArchivePath))
               /\ st_i' = st_i + 1
               /\ UNCHANGED <<st_result, index_pc>>
          ELSE /\ st_result' = "err"
               /\ index_pc' = "mt"
               /\ UNCHANGED <<st_i, st_calls, st_exec>>
     ELSE /\ st_result' = "ok"
          /\ index_pc' = "mt"
          /\ UNCHANGED <<st_i, st_calls, st_exec>>
  /\ UNCHANGED <<archive, file_opens, unreadable, worker, thread_count, file_per_thread,
                 children, zip_lock, cb_lock, mt_calls, requested, mt_result>>
  /\ UNCHANGED <<splitVars, serveVars>>

\* let thread_count = if file_len > worker { worker } else { file_len };
ThreadCount(file_len, w) == IF file_len > w THEN w ELSE file_len

\* file_len when child i is spawned: file_per_thread is taken off per spawn.
RECURSIVE FileLenAt(_, _, _)
FileLenAt(i, file_len, per_thread) ==
  IF i = 0 THEN file_len ELSE FileLenAt(i - 1, file_len, per_thread) - per_thread

\* A spawn loop in which the last child takes no more than the others.
HowMuchNoRemainder(i, count, file_len, per_thread) == per_thread

\* how_much of child i: the last child takes what is left.
HowMuch(i, count, file_len, per_thread) ==
  IF i = count - 1 THEN FileLenAt(i, file_len, per_thread) ELSE per_thread

\* The head of index_zip_multi_thread: the partition and the spawns.
MultiThreadStart ==
  /\ index_pc = "mt"
  /\ LET file_len == Len(archive)
         count == ThreadCount(file_len, worker)
     IN IF ~file_opens
        THEN \* `?` on File::open or ZipArchive::new returns the error
             /\ index_pc' = "finished"
             /\ mt_result' = "err"
             /\ UNCHANGED <<thread_count, file_per_thread, children>>
        ELSE IF count = 0
        THEN \* file_len / thread_count divides by zero: the task panics
             /\ index_pc' = "panicked"
             /\ UNCHANGED <<thread_count, file_per_thread, children, mt_result>>
        ELSE LET per_thread == file_len \div count
             IN /\ thread_count' = count
                /\ file_per_thread' = per_thread
                /\ children' = [i \in 0..(count - 1) |->
                     [base_index |-> i,
                      how_much |-> HowMuch(i, count, file_len, per_thread),
                      i |-> 0, pc |-> "next"]]
                /\ index_pc' = "mt_running"
                /\ UNCHANGED mt_result
  /\ UNCHANGED <<archive, file_opens, unreadable, worker, st_i, st_calls, st_exec, st_result,
                 zip_lock, cb_lock, mt_calls, requested>>
  /\ UNCHANGED <<splitVars, serveVars>>

\* A mutex that is handed out while it is held.
LockFreeAlways(lock) == TRUE

\* Mutex::lock returns once no task holds the guard.
LockFree(lock) == lock = {}

Children == DOMAIN children

\* let index = base_index * file_per_thread + i;
ChildIndex(w) == children[w].base_index * file_per_thread + children[w].i

\* zip_file.lock(), or the end of the child's loop.
ChildLockZip(w) ==
  /\ index_pc = "mt_running"
  /\ children[w].pc = "next"
  /\ IF children[w].i < children[w].how_much
     THEN /\ zip_lock = {}
          /\ zip_lock' = {w}
          /\ children' = [children EXCEPT ![w].pc = "zip"]
     ELSE /\ children' = [children EXCEPT ![w].pc = "ok"]
          /\ UNCHANGED zip_lock
  /\ UNCHANGED <<archive, file_opens, unreadable, worker, index_pc, st_i, st_calls, st_exec, st_result,
                 thread_count, file_per_thread, cb_lock, mt_calls, requested, mt_result>>
  /\ UNCHANGED <<splitVars, serveVars>>

\* cb.lock()
ChildLockCallback(w) ==
  /\ index_pc = "mt_running"
  /\ children[w].pc = "zip"
  /\ LockFree(cb_lock)
  /\ cb_lock' = {w}
  /\ children' = [children EXCEPT ![w].pc = "cb"]
  /\ UNCHANGED <<archive, file_opens, unreadable, worker, index_pc, st_i, st_calls, st_exec, st_result,
                 thread_count, file_per_thread, zip_lock, mt_calls, requested, mt_result>>
  /\ UNCHANGED <<splitVars, serveVars>>

\* by_index(index)?, exec, and both guards dropped.
ChildExec(w) ==
  /\ index_pc = "mt_running"
  /\ children[w].pc = "cb"
  /\ requested' = Append(requested, ChildIndex(w))
  /\ IF Readable(ChildIndex(w))
     THEN /\ mt_calls' = Append(mt_calls, CallTuple(ChildIndex(w)))
          /\ children' = [children EXCEPT ![w].pc = "next", ![w].i = @ + 1]
     ELSE /\ children' = [children EXCEPT ![w].pc = "err"]
          /\ UNCHANGED mt_calls
  /\ zip_lock' = {}
  /\ cb_lock' = {}
  /\ UNCHANGED <<archive, file_opens, unreadable, worker, index_pc, st_i, st_calls, st_exec, st_result,
                 thread_count, file_per_thread, mt_result>>
  /\ UNCHANGED <<splitVars, serveVars>>

\* Every join handle has been awaited; only a JoinError is looked at.
MultiThreadJoin ==
  /\ index_pc = "mt_running"
  /\ \A w \in Children : children[w].pc \in {"ok", "err"}
  /\ mt_result' = "ok"
  /\ index_pc' = "finished"
  /\ UNCHANGED <<archive, file_opens, unreadable, worker, st_i, st_calls, st_exec, st_result,
                 thread_count, file_per_thread, children, zip_lock, cb_lock,
                 mt_calls, requested>>
  /\ UNCHANGED <<splitVars, serveVars>>

IndexNext ==
  \/ SingleThreadStep
  \/ MultiThreadStart
  \/ MultiThreadJoin
  \/ \E w \in Children : ChildLockZip(w)
  \/ \E w \in Children : ChildLockCallback(w)
  \/ \E w \in Children : ChildExec(w)

IndexSpecInit == IndexInit /\ SplitIdle /\ ServeIdle

IndexSpec == IndexSpecInit /\ [][IndexNext]_vars

(***************************************************************************)
(* Claims about indexing one archive.                                      *)
(***************************************************************************)
Occurrences(s, x) == Cardinality({k \in 1..Len(s) : s[k] = x})

SameMultiset(s, t) ==
  \A x \in SeqToSet(s) \cup SeqToSet(t) : Occurrences(s, x) = Occurrences(t, x)

\* C4: for every archive whose entries are all readable and every requested
\* worker count, the single-threaded and the multi-threaded run hand the
\* callback the same multiset of (index, name, size) tuples.
C4_SameTuples ==
  (index_pc \in {"finished", "panicked"} /\ unreadable = {}) =>
    SameMultiset(st_calls, mt_calls)

\* The index range of child w: [lo, hi).
ChildLo(w) == children[w].base_index * file_per_thread

ChildHi(w) == ChildLo(w) + children[w].how_much

LastIndexOf(s, c) ==
  LET hits == {i \in 1..Len(s) : s[i] = c}
  IN IF hits = {} THEN 0 ELSE CHOOSE i \in hits : \A j \in hits : j <= i

\* str::replace('\\', "/")
ReplaceBackslash(s) == [i \in 1..Len(s) |-> IF s[i] = "\\" THEN "/" ELSE s[i]]

\* Path::join of a directory and a file name.
Join(dir, name) == dir \o <<"/">> \o name

\* Path::file_name: what follows the last separator.
FileName(s) == SubSeq(s, LastIndexOf(s, "/") + 1, Len(s))

\* Path::extension: what follows the last '.' of the file name, unless the
\* name has no '.' or only a leading one; <<>> stands for None.
Extension(s) ==
  LET f == FileName(s)
      k == LastIndexOf(f, ".")
  IN IF k <= 1 THEN <<>> ELSE SubSeq(f, k + 1, Len(f))

\* Path::strip_prefix(base) for a path at or below base.
StripPrefix(path, base) ==
  IF path = base THEN <<>> ELSE SubSeq(path, Len(base) + 2, Len(path))

\* PathBuf::pop: truncate to the parent.
PathPop(buf) ==
  LET k == LastIndexOf(buf, "/")
  IN IF k = 0 THEN <<>> ELSE SubSeq(buf, 1, k - 1)

\* PathBuf::push: an absolute argument replaces the buffer; otherwise a
\* separator is added unless the buffer is empty or ends with one.
PathPush(buf, path) ==
  IF path # <<>> /\ path[1] = "/" THEN path
  ELSE IF buf = <<>> \/ buf[Len(buf)] = "/" THEN buf \o path
  ELSE buf \o <<"/">> \o path

\* ZipFile::is_dir: the name ends with a separator.
EntryIsDir(xname) == xname # <<>> /\ xname[Len(xname)] \in {"/", "\\"}

(***************************************************************************)
(* The host tree served: files, directories and archives under the root.   *)
(***************************************************************************)
MaxDepth == 3

MaxIndexCoreNum == 2

Root == <<"r">>

Str_x == <<"x">>
Str_d == <<"d">>
Str_e == <<"e">>
Str_site_zip == <<"s", "i", "t", "e", ".", "z", "i", "p">>
Str_t_zip == <<"t", ".", "z", "i", "p">>
Str_u_zip == <<"u", ".", "z", "i", "p">>
Str_zip == <<"z", "i", "p">>
Str_html == <<"h", "t", "m", "l">>
Str_js == <<"j", "s">>
Str_css == <<"c", "s", "s">>
Str_index_html == <<"i", "n", "d", "e", "x", ".", "h", "t", "m", "l">>
Str_slash_index_html == <<"/", "i", "n", "d", "e", "x", ".", "h", "t", "m", "l">>
Str_app_js == <<"a", "s", "s", "e", "t", "s", "/", "a", "p", "p", ".", "j", "s">>
Str_site == <<"s", "i", "t", "e">>
Str_index == <<"i", "n", "d", "e", "x">>

\* bad is the index of the archive entry by_index cannot read, or -1.
FileNode(parent, name) ==
  [parent |-> parent, name |-> name, is_dir |-> FALSE, entries |-> <<>>, bad |-> -1]

DirNode(parent, name) ==
  [parent |-> parent, name |-> name, is_dir |-> TRUE, entries |-> <<>>, bad |-> -1]

ZipNode(parent, name, entries) ==
  [parent |-> parent, name |-> name, is_dir |-> FALSE, entries |-> entries, bad |-> -1]

\* An archive that opens, with one entry whose local header is damaged.
DamagedZipNode(parent, name, entries, bad) ==
  [parent |-> parent, name |-> name, is_dir |-> FALSE, entries |-> entries, bad |-> bad]

NodePath(n) == Join(n.parent, n.name)

\* The entry names an archive at the root may hold.
SiteContents ==
  { <<Str_index_html, Str_app_js>>,
    <<Str_x, <<"d", "/", "x">>>>,
    <<<<".", ".", "/", "x">>, <<"/", "x">>, <<"a", "\\", "b">>>>,
    <<<<"d", "/">>, <<"d", "/", "i", "n", "d", "e", "x", ".", "h", "t", "m", "l">>>> }

\* The entry names an archive in r/d may hold.
NestedContents == { <<Str_x>>, <<Str_index_html>> }

DeepContents == { <<<<"y">>>> }

DirD == Join(Root, Str_d)

DirE == Join(DirD, Str_e)

Optional(S) == {{}} \cup {{x} : x \in S}

\* r/d/e, empty or with u.zip.
SubtreesE ==
  {{}} \cup { {DirNode(DirD, Str_e)} \cup u :
              u \in Optional({ZipNode(DirE, Str_u_zip, c) : c \in DeepContents}) }

\* r/d with any of x, t.zip and e.
SubtreesD ==
  {{}} \cup { {DirNode(Root, Str_d)} \cup x \cup t \cup e :
              x \in Optional({FileNode(DirD, Str_x)}),
              t \in Optional({ZipNode(DirD, Str_t_zip, c) : c \in NestedContents}),
              e \in SubtreesE }

Trees ==
  { x \cup z \cup d :
      x \in Optional({FileNode(Root, Str_x)}),
      z \in Optional({ZipNode(Root, Str_site_zip, c) : c \in SiteContents}),
      d \in SubtreesD }

\* fs::read_dir
ReadDir(dir) == {n \in tree : n.parent = dir}

\* The entry names of the archive at a host path.
ZipEntries(f) == (CHOOSE n \in tree : NodePath(n) = f).entries

\* Whether by_index(i) of the archive at a host path succeeds.
EntryReadable(f, i) == (CHOOSE n \in tree : NodePath(n) = f).bad # i

(***************************************************************************)
(* create_file_db: the host walk, then index_zip_dir.                      *)
(***************************************************************************)
\* FileIndex::new; <<>> and -1 stand for None.
FileIndexNew(is_inside_zip, is_dir, zip_path, in_zip_path) ==
  [flags |-> (IF is_inside_zip THEN 1 ELSE 0) + (IF is_dir THEN 16 ELSE 0),
   zip_path |-> zip_path, zip_index |-> in_zip_path]

\* An archive callback that keeps the archive's own file name in the key.
ArchiveKeyUnderStem(parent_dir, f, xname) ==
  ReplaceBackslash(
    PathPush(SubSeq(StripPrefix(f, parent_dir), 1, Len(StripPrefix(f, parent_dir)) - 4),
             IF EntryIsDir(xname) THEN SubSeq(xname, 1, Len(xname) - 1) ELSE xname))

\* The key the archive callback computes for entry xname of archive f.
ArchiveKey(parent_dir, f, xname) ==
  ReplaceBackslash(
    PathPush(PathPop(StripPrefix(f, parent_dir)),
             IF EntryIsDir(xname) THEN SubSeq(xname, 1, Len(xname) - 1) ELSE xname))

\* The key iter_dir_cb computes for host entry x met in directory dir.
HostKey(dir, x) == ReplaceBackslash(StripPrefix(x, dir))

\* A host walker that takes depth -1 for "do not descend".
HostDescendsBounded(d) == d > 0

\* A walker that hands its own depth down unchanged.
NextDepthKept(d) == d

\* serve.rs iter_dir: whether the walker enters a directory.
HostDescends(d) == d > 0 \/ d = -1

\* index_zip.rs iter_dir: whether the walker enters a directory.
ZipDirDescends(d) == d > 0 \/ d = -1

NextDepth(d) == IF d = -1 THEN d ELSE d - 1

Frame(dir, d) == [dir |-> dir, rest |-> ReadDir(dir), depth |-> d]

\* The stack with its top frame's entry x taken, and x entered if asked.
Visit(x, enter) ==
  LET top == walk_stack[Len(walk_stack)]
      below == SubSeq(walk_stack, 1, Len(walk_stack) - 1)
      taken == Append(below, [top EXCEPT !.rest = @ \ {x}])
  IN IF enter THEN Append(taken, Frame(NodePath(x), NextDepth(top.depth))) ELSE taken

\* BTreeMap::entry(key).or_insert_with: an existing value is kept.
MapOrInsert(m, k, v) == IF k \in DOMAIN m THEN m ELSE MapInsert(m, k, v)

\* --landing-page: none, or the page served at the root.
LandingPages == {<<>>, Str_index_html}

\* --depth: unbounded, none, one level short of the deepest entry, down to
\* it, and beyond it.
Depths == {-1, 0, 1, 2, MaxDepth}

ServeInitOn(trees) ==
  /\ tree \in trees
  /\ depth \in Depths
  /\ index_core_num \in 0..MaxIndexCoreNum
  /\ landing_page \in LandingPages
  /\ land_with_path \in IF landing_page = <<>> THEN {FALSE} ELSE BOOLEAN
  /\ host_visited = {}
  /\ zip_visited = {}
  /\ zip_cb_lock = {}
  /\ index_dir_result = NoValue
  /\ serve_pc = "host_walk"
  /\ walk_stack = <<[dir |-> Root, rest |-> {n \in tree : n.parent = Root}, depth |-> depth]>>
  /\ file_db = EmptyMap
  /\ first_writer = EmptyMap
  /\ zip_handles = {}
  /\ zip_files = <<>>
  /\ workers = <<>>
  /\ req = <<>>
  /\ resp = [kind |-> "None", ctype |-> "", body |-> <<>>, path |-> <<>>, anchors |-> <<>>]

ServeInit == ServeInitOn(Trees)

\* serve.rs iter_dir: the callback on one entry, then the descent into it.
HostWalkVisit ==
  /\ serve_pc = "host_walk"
  /\ walk_stack # <<>>
  /\ LET top == walk_stack[Len(walk_stack)]
     IN \E x \in top.rest :
          /\ IF Extension(NodePath(x)) = Str_zip
             THEN /\ zip_handles' = zip_handles \cup {NodePath(x)}
                  /\ UNCHANGED <<file_db, first_writer>>
             ELSE LET key == HostKey(top.dir, NodePath(x))
                      value == FileIndexNew(FALSE, x.is_dir, <<>>, -1)
                  IN /\ file_db' = MapOrInsert(file_db, key, value)
                     /\ first_writer' = MapOrInsert(first_writer, key, value)
                     /\ UNCHANGED zip_handles
          /\ walk_stack' = Visit(x, HostDescends(top.depth) /\ x.is_dir)
          /\ host_visited' = host_visited \cup {NodePath(x)}
  /\ UNCHANGED <<serveOptions, zip_visited, zip_cb_lock, index_dir_result, serve_pc, zip_files, workers, req, resp>>
  /\ UNCHANGED <<splitVars, indexVars>>

\* A directory has been read to its end; after the root, index_zip_dir starts.
HostWalkReturn ==
  /\ serve_pc = "host_walk"
  /\ walk_stack # <<>>
  /\ walk_stack[Len(walk_stack)].rest = {}
  /\ IF Len(walk_stack) = 1
     THEN /\ serve_pc' = "collect"
          /\ walk_stack' = <<Frame(Root, depth)>>
     ELSE /\ walk_stack' = SubSeq(walk_stack, 1, Len(walk_stack) - 1)
          /\ UNCHANGED serve_pc
  /\ UNCHANGED <<serveOptions, host_visited, zip_visited, zip_cb_lock, index_dir_result, file_db, first_writer, zip_handles,
                 zip_files, workers, req, resp>>
  /\ UNCHANGED <<splitVars, indexVars>>

\* index_zip.rs iter_dir under index_zip_dir: descend, or hand the entry to
\* the closure that keeps the paths with extension "zip".
CollectVisit ==
  /\ serve_pc = "collect"
  /\ walk_stack # <<>>
  /\ LET top == walk_stack[Len(walk_stack)]
     IN \E x \in top.rest :
          /\ zip_visited' = zip_visited \cup {NodePath(x)}
          /\ IF ZipDirDescends(top.depth) /\ x.is_dir
             THEN /\ walk_stack' = Visit(x, TRUE)
                  /\ UNCHANGED zip_files
             ELSE /\ walk_stack' = Visit(x, FALSE)
                  /\ zip_files' = IF Extension(NodePath(x)) = Str_zip
                                  THEN Append(zip_files, NodePath(x)) ELSE zip_files
  /\ UNCHANGED <<serveOptions, host_visited, zip_cb_lock, index_dir_result, serve_pc, file_db, first_writer,
                 zip_handles, workers, req, resp>>
  /\ UNCHANGED <<splitVars, indexVars>>

\* A directory has been read to its end; after the root, the workers are spawned.
CollectReturn ==
  /\ serve_pc = "collect"
  /\ walk_stack # <<>>
  /\ walk_stack[Len(walk_stack)].rest = {}
  /\ walk_stack' = SubSeq(walk_stack, 1, Len(walk_stack) - 1)
  /\ IF Len(walk_stack) = 1
     THEN /\ serve_pc' = "indexing"
          /\ workers' = [w \in 0..(index_core_num - 1) |->
                           [pc |-> "pop", fname |-> <<>>, i |-> 0, indexed |-> {}]]
     ELSE UNCHANGED <<serve_pc, workers>>
  /\ UNCHANGED <<serveOptions, host_visited, zip_visited, zip_cb_lock, index_dir_result, file_db, first_writer, zip_handles,
                 zip_files, req, resp>>
  /\ UNCHANGED <<splitVars, indexVars>>

Workers == DOMAIN workers

\* index_zip_single_thread(&fname, ..)? in index_zip_dir_child: an error
\* leaves the loop and ends the child.
AfterFailure == "err"

\* A child that returns after its first archive.
ArchiveDoneExits(w, fname) ==
  [pc |-> "done", fname |-> fname, i |-> 0, indexed |-> workers[w].indexed \cup {fname}]

\* The worker's state once index_zip_single_thread has returned Ok.
ArchiveDone(w, fname) ==
  [pc |-> "pop", fname |-> fname, i |-> 0, indexed |-> workers[w].indexed \cup {fname}]

\* index_zip_dir_child: pop the next archive path, or leave the loop.
WorkerPop(w) ==
  /\ serve_pc = "indexing"
  /\ workers[w].pc = "pop"
  /\ IF zip_files = <<>>
     THEN /\ workers' = [workers EXCEPT ![w].pc = "done"]
          /\ UNCHANGED zip_files
     ELSE LET fname == zip_files[Len(zip_files)]
          IN /\ zip_files' = SubSeq(zip_files, 1, Len(zip_files) - 1)
             /\ workers' = [workers EXCEPT ![w] =
                  IF ZipEntries(fname) = <<>> THEN ArchiveDone(w, fname)
                  ELSE [pc |-> "index", fname |-> fname, i |-> 0,
                        indexed |-> workers[w].indexed]]
  /\ UNCHANGED <<serveOptions, host_visited, zip_visited, zip_cb_lock, index_dir_result,
                 serve_pc, walk_stack, file_db, first_writer, zip_handles, req, resp>>
  /\ UNCHANGED <<splitVars, indexVars>>

\* index_zip_single_thread: cb.lock() for entry i of the worker's archive.
WorkerLock(w) ==
  /\ serve_pc = "indexing"
  /\ workers[w].pc = "index"
  /\ LockFree(zip_cb_lock)
  /\ zip_cb_lock' = {w}
  /\ workers' = [workers EXCEPT ![w].pc = "locked"]
  /\ UNCHANGED <<serveOptions, host_visited, zip_visited, index_dir_result, serve_pc,
                 walk_stack, file_db, first_writer, zip_handles, zip_files, req, resp>>
  /\ UNCHANGED <<splitVars, indexVars>>

\* by_index(i)? and the archive callback of create_file_db on entry i, under
\* the callback's guard, which is dropped at the end of the statement.
WorkerCallback(w) ==
  /\ serve_pc = "indexing"
  /\ workers[w].pc = "locked"
  /\ LET f == workers[w].fname
         i == workers[w].i
         xname == ZipEntries(f)[i + 1]
         key == ArchiveKey(Root, f, xname)
         value == FileIndexNew(TRUE, EntryIsDir(xname), f, i)
     IN IF EntryReadable(f, i)
        THEN /\ file_db' = MapInsert(file_db, key, value)
             /\ first_writer' = MapOrInsert(first_writer, key, value)
             /\ workers' = [workers EXCEPT ![w] =
                  IF i + 1 = Len(ZipEntries(f)) THEN ArchiveDone(w, f)
                  ELSE [workers[w] EXCEPT !.pc = "index", !.i = i + 1]]
        ELSE /\ workers' = [workers EXCEPT ![w].pc = AfterFailure]
             /\ UNCHANGED <<file_db, first_writer>>
  /\ zip_cb_lock' = zip_cb_lock \ {w}
  /\ UNCHANGED <<serveOptions, host_visited, zip_visited, index_dir_result, serve_pc,
                 walk_stack, zip_handles, zip_files, req, resp>>
  /\ UNCHANGED <<splitVars, indexVars>>

\* if let Ok(()) = i.await? {}: only a JoinError is passed on; what the
\* child returned is dropped.
JoinResult == "ok"

\* index_zip_dir has awaited every worker: create_file_db returns.
IndexJoin ==
  /\ serve_pc = "indexing"
  /\ \A w \in Workers : workers[w].pc \in {"done", "err"}
  /\ index_dir_result' = JoinResult
  /\ serve_pc' = "ready"
  /\ UNCHANGED <<serveOptions, host_visited, zip_visited, zip_cb_lock, walk_stack,
                 file_db, first_writer, zip_handles, zip_files, workers, req, resp>>
  /\ UNCHANGED <<splitVars, indexVars>>

(***************************************************************************)
(* file_route: the resolver behind GET /<path..>.                          *)
(***************************************************************************)
\* A run of bytes of entry index of archive zip; href is set on a base tag.
Chunk(kind, zip, index, href) == [kind |-> kind, zip |-> zip, index |-> index, href |-> href]

\* What by_index(zip_index) yields: an html entry is a head, "</head>" and
\* a tail; any other entry is one run of bytes.
EntryContent(zip_path, zip_index) ==
  IF Extension(ZipEntries(zip_path)[zip_index + 1]) = Str_html
  THEN << Chunk("head", zip_path, zip_index, <<>>),
          Chunk("</head>", zip_path, zip_index, <<>>),
          Chunk("tail", zip_path, zip_index, <<>>) >>
  ELSE << Chunk("bytes", zip_path, zip_index, <<>>) >>

count_occurrences(s, c) == Cardinality({i \in 1..Len(s) : s[i] = c})

\* insert_base_tag: the tag goes right before the first "</head>", if any.
insert_base_tag(data, base_href) ==
  LET ends == {i \in 1..Len(data) : data[i].kind = "</head>"}
  IN IF ends = {} THEN data
     ELSE LET head_end == CHOOSE i \in ends : \A j \in ends : i <= j
          IN SubSeq(data, 1, head_end - 1)
             \o << Chunk("base", <<>>, -1, base_href) >>
             \o SubSeq(data, head_end, Len(data))

ContentTypeOf(file_ext) ==
  IF file_ext = Str_html THEN "text/html"
  ELSE IF file_ext = Str_js THEN "application/javascript"
  ELSE IF file_ext = Str_css THEN "text/css"
  ELSE "application/octet-stream"

NoResponse == [kind |-> "None", ctype |-> "", body |-> <<>>, path |-> <<>>, anchors |-> <<>>]

BytesResponse(ctype, body) == [NoResponse EXCEPT !.kind = "Bytes", !.ctype = ctype, !.body = body]

FileResponse(path) == [NoResponse EXCEPT !.kind = "File", !.path = path]

ListingResponse(path, anchors) ==
  [NoResponse EXCEPT !.kind = "Listing", !.ctype = "text/html", !.path = path, !.anchors = anchors]

PanicResponse == [NoResponse EXCEPT !.kind = "Panic"]

\* read_file_from_zip: the handle lookup is unwrapped.
read_file_from_zip(zip_path, zip_index) ==
  IF zip_path \in zip_handles THEN EntryContent(zip_path, zip_index) ELSE <<>>

\* response_file_index!: the response for a present file entry, or
\* NoResponse when the macro falls through.
response_file_index(key, file_ext, cur_path, auto_index) ==
  IF key \notin DOMAIN file_db THEN NoResponse
  ELSE LET file_index == file_db[key]
       IN IF file_index.flags = 0 THEN FileResponse(cur_path)
          ELSE IF file_index.flags = 1
          THEN IF file_index.zip_path \notin zip_handles THEN PanicResponse
               ELSE LET ctype == ContentTypeOf(file_ext)
                        data == read_file_from_zip(file_index.zip_path, file_index.zip_index)
                    IN BytesResponse(ctype,
                         IF ctype = "text/html" /\ auto_index
                         THEN insert_base_tag(data, cur_path) ELSE data)
          ELSE NoResponse

\* The keys file_route lists under cur_path, in the map's order.
FileList(cur_path) ==
  LET rest(k) == IF StartsWith(k, cur_path \o <<"/">>)
                 THEN SubSeq(k, Len(cur_path) + 2, Len(k)) ELSE k
  IN SortedKeys({k \in DOMAIN file_db :
                   /\ k # cur_path
                   /\ StartsWith(k, cur_path)
                   /\ count_occurrences(rest(k), "/") = 0})

file_route(path) ==
  LET file_ext == Extension(path)
      cur_path == ReplaceBackslash(path)
      index_html == cur_path \o Str_slash_index_html
      probe == response_file_index(index_html, Str_html, index_html, TRUE)
      direct == response_file_index(cur_path, file_ext, cur_path, FALSE)
  IN IF probe.kind # "None" THEN probe
     ELSE IF direct.kind # "None" THEN direct
     ELSE ListingResponse(cur_path, FileList(cur_path))

\* Redirect::temporary
RedirectResponse(uri) == [NoResponse EXCEPT !.kind = "TemporaryRedirect", !.path = uri]

\* A landing route that redirects whenever a landing page is set.
landing_route_redirects ==
  IF landing_page = <<>> THEN file_route(<<>>)
  ELSE RedirectResponse(<<"/">> \o landing_page)

\* GET /
landing_route ==
  IF landing_page = <<>> THEN file_route(<<>>)
  ELSE IF land_with_path THEN RedirectResponse(<<"/">> \o landing_page)
  ELSE file_route(landing_page)

\* The routes mounted at "/": the static route "/" goes before "/<path..>".
Get(path) == IF path = <<>> THEN landing_route ELSE file_route(path)

\* The paths requested.
RequestPaths ==
  { <<>>, Str_site, Str_site \o Str_slash_index_html, Join(Str_site, Str_app_js),
    Str_index_html, Str_app_js, Str_x, Str_d, Join(Str_d, Str_x), Str_index }

\* GET /<path..> once the database is built.  A request writes nothing
\* that a later request reads, so one request is followed per behaviour.
Request(path) ==
  /\ serve_pc = "ready"
  /\ resp.kind = "None"
  /\ req' = path
  /\ resp' = Get(path)
  /\ UNCHANGED <<serveOptions, host_visited, zip_visited, zip_cb_lock, index_dir_result, serve_pc, walk_stack, file_db,
                 first_writer, zip_handles, zip_files, workers>>
  /\ UNCHANGED <<splitVars, indexVars>>

ServeNext ==
  \/ HostWalkVisit
  \/ HostWalkReturn
  \/ CollectVisit
  \/ CollectReturn
  \/ \E w \in Workers : WorkerPop(w)
  \/ \E w \in Workers : WorkerLock(w)
  \/ \E w \in Workers : WorkerCallback(w)
  \/ IndexJoin
  \/ \E path \in RequestPaths : Request(path)

ServeSpecInit == ServeInit /\ landing_page = <<>> /\ SplitIdle /\ IndexIdle

ServeSpec == ServeSpecInit /\ [][ServeNext]_vars

\* A file name that holds a backslash, as a Unix host allows.
Str_d_backslash_index_html == <<"d", "\\">> \o Str_index_html

\* Flat roots: x, site.zip and a file named d\index.html, served with or
\* without a landing page.
RootTrees ==
  { t \cup h : t \in {u \in Trees : \A n \in u : n.parent = Root /\ ~n.is_dir},
               h \in Optional({FileNode(Root, Str_d_backslash_index_html)}) }

\* Roots with two archives, site.zip and d/t.zip, where site.zip may be
\* damaged.
PoolTrees ==
  { {z, DirNode(Root, Str_d), ZipNode(DirD, Str_t_zip, <<Str_x>>)} :
      z \in { ZipNode(Root, Str_site_zip, <<Str_x>>),
              DamagedZipNode(Root, Str_site_zip, <<Str_x>>, 0) } }

PoolSpecInit == ServeInitOn(PoolTrees) /\ landing_page = <<>> /\ SplitIdle /\ IndexIdle

PoolSpec == PoolSpecInit /\ [][ServeNext]_vars

\* r/d/t.zip alone, with relative entry names or with an absolute one.
NestedTrees ==
  { {DirNode(Root, Str_d), ZipNode(DirD, Str_t_zip, c)} :
      c \in { <<Str_x, <<"d", "/">>, <<"a", "\\", "b">>>>, <<<<"/", "x">>>> } }

NestedSpecInit == ServeInitOn(NestedTrees) /\ landing_page = <<>> /\ SplitIdle /\ IndexIdle

NestedSpec == NestedSpecInit /\ [][ServeNext]_vars

\* The tokio runtime keeps running the tasks it was handed.
PoolFairSpec == PoolSpecInit /\ [][ServeNext]_vars /\ WF_vars(ServeNext)

RootSpecInit == ServeInitOn(RootTrees) /\ SplitIdle /\ IndexIdle

RootSpec == RootSpecInit /\ [][ServeNext]_vars

(***************************************************************************)
(* Properties of the file database and of the resolver.                    *)
(***************************************************************************)
\* C1: once create_file_db has returned, every key holds the FileIndex of
\* its earliest insertion; no later insertion has replaced it.
C1_FirstWriterWins ==
  serve_pc = "ready" => \A k \in DOMAIN file_db : file_db[k] = first_writer[k]

HasDotDotSegment(k) ==
  \E i \in 1..(Len(k) - 1) :
    /\ k[i] = "." /\ k[i + 1] = "."
    /\ (i = 1 \/ k[i - 1] = "/")
    /\ (i + 1 = Len(k) \/ k[i + 2] = "/")

\* C6: at every moment no key of the database contains a backslash, starts
\* with '/', or has a '..' segment.
C6_KeysNormalized ==
  \A k \in DOMAIN file_db :
    /\ \A i \in 1..Len(k) : k[i] # "\\"
    /\ ~StartsWith(k, <<"/">>)
    /\ ~HasDotDotSegment(k)

InsideZip(file_index) == file_index.flags \in {1, 17}

\* C7: once create_file_db has returned, the archive path of every FileIndex
\* that points inside an archive is a key of the handle map, so no request
\* is answered by a failed handle lookup.
C7_HandlesPresent ==
  serve_pc = "ready" =>
    /\ \A k \in DOMAIN file_db :
         InsideZip(file_db[k]) => file_db[k].zip_path \in zip_handles
    /\ resp.kind # "Panic"

\* An archive below the root has been indexed and one of its entries served.
C7_Witness ==
  /\ serve_pc = "ready"
  /\ resp.kind = "Bytes"
  /\ \E k \in DOMAIN file_db :
       /\ InsideZip(file_db[k])
       /\ PathPop(file_db[k].zip_path) # Root
       /\ file_db[k].zip_path \in zip_handles

SiteZip == Join(Root, Str_site_zip)

\* The root holds site.zip (index.html, assets/app.js) and nothing else, it
\* has been indexed by at least one worker, and a request has been answered.
SiteOnlyAnswered ==
  /\ tree = {ZipNode(Root, Str_site_zip, <<Str_index_html, Str_app_js>>)}
  /\ index_core_num >= 1
  /\ serve_pc = "ready"
  /\ resp.kind # "None"

Level(path) == count_occurrences(path, "/")

AllPaths == {NodePath(n) : n \in tree}

\* The entries within d levels of descent below the root; all of them for -1.
Reach(d) == {path \in AllPaths : d = -1 \/ Level(path) <= d + 1}

ListedUnder(k, p) ==
  IF p = <<>> THEN count_occurrences(k, "/") = 0
  ELSE /\ StartsWith(k, p \o <<"/">>)
       /\ count_occurrences(SubSeq(k, Len(p) + 2, Len(k)), "/") = 0

\* C12: a listing answered for path p has an anchor for key k if and only
\* if k starts with "p/" (or p is empty) and the rest of k holds no '/'.
C12_ListingAnchors ==
  resp.kind = "Listing" =>
    \A k \in DOMAIN file_db : (k \in SeqToSet(resp.anchors)) <=> ListedUnder(k, req)

(***************************************************************************)
(* Properties of the landing route.                                        *)
(***************************************************************************)
RootAnswered == serve_pc = "ready" /\ req = <<>> /\ resp.kind # "None"

\* C13: GET / with a landing page L is a temporary redirect to /L with no
\* body when land_with_path is set, and is what resolving L gives, not a
\* redirect, when it is not; with no landing page it is what resolving the
\* empty path gives.
C13_Landing ==
  RootAnswered =>
    /\ (landing_page # <<>> /\ land_with_path) =>
         resp = [kind |-> "TemporaryRedirect", ctype |-> "", body |-> <<>>,
                 path |-> <<"/">> \o landing_page, anchors |-> <<>>]
    /\ (landing_page # <<>> /\ ~land_with_path) =>
         resp = file_route(landing_page) /\ resp.kind # "TemporaryRedirect"
    /\ landing_page = <<>> =>
         resp = file_route(<<>>) /\ resp.kind # "TemporaryRedirect"

\* GET / has been answered with the bytes of the landing page, unredirected.
C13_Witness ==
  /\ RootAnswered
  /\ landing_page = Str_index_html
  /\ ~land_with_path
  /\ resp.kind = "Bytes"

(***************************************************************************)
(* Properties of the index.html probe.                                     *)
(***************************************************************************)
IndexKey(p) == p \o Str_slash_index_html

\* The body holds the base tag for href right before its "</head>".
BaseBeforeHeadEnd(body, href) ==
  \E i \in 1..(Len(body) - 1) :
    /\ body[i].kind = "base" /\ body[i].href = href
    /\ body[i + 1].kind = "</head>"
    /\ \A j \in 1..(i - 1) : body[j].kind # "</head>"

\* C14 for entries inside archives: a path p whose "p/index.html" is an
\* archive file is answered with that entry's bytes as text/html, the base
\* tag inserted before "</head>", also when p itself is a key.
C14_ArchiveIndexProbe ==
  (serve_pc = "ready" /\ resp.kind # "None" /\ req # <<>>
     /\ IndexKey(req) \in DOMAIN file_db /\ file_db[IndexKey(req)].flags = 1) =>
    /\ resp.kind = "Bytes"
    /\ resp.ctype = "text/html"
    /\ BaseBeforeHeadEnd(resp.body, IndexKey(req))
    /\ resp.body = insert_base_tag(
         EntryContent(file_db[IndexKey(req)].zip_path, file_db[IndexKey(req)].zip_index),
         IndexKey(req))

\* C14: a path p whose "p/index.html" is a file of the database, on the
\* host or in an archive, is answered with bytes as text/html with the base
\* tag for "p/index.html" right before "</head>".
C14_IndexProbe ==
  (serve_pc = "ready" /\ resp.kind # "None" /\ req # <<>>
     /\ IndexKey(req) \in DOMAIN file_db /\ file_db[IndexKey(req)].flags \in {0, 1}) =>
    /\ resp.kind = "Bytes"
    /\ resp.ctype = "text/html"
    /\ BaseBeforeHeadEnd(resp.body, IndexKey(req))

(***************************************************************************)
(* Properties of the fall-through to the listing.                          *)
(***************************************************************************)
IsFileEntry(k) == k \in DOMAIN file_db /\ file_db[k].flags \in {0, 1}

\* A non-empty path has been answered for which neither "p/index.html" nor
\* p is a file of the database.
FellThrough ==
  /\ serve_pc = "ready" /\ resp.kind # "None" /\ req # <<>>
  /\ ~IsFileEntry(IndexKey(req))
  /\ ~IsFileEntry(req)

\* C15: such a path is answered with the listing headed "Files under p:",
\* and the listing has no anchor when no key starts with "p/".
C15_FallThroughListing ==
  FellThrough =>
    /\ resp.kind = "Listing"
    /\ resp.ctype = "text/html"
    /\ resp.path = req
    /\ (\A k \in DOMAIN file_db : ~StartsWith(k, req \o <<"/">>)) => resp.anchors = <<>>

(***************************************************************************)
(* Properties of index_zip_single_thread.                                  *)
(***************************************************************************)
\* C16: the k-th invocation of the callback carries index k - 1 and the
\* archive's path; on an archive that opens and has n readable entries the
\* function returns success, having invoked the callback exactly n times.
C16_SingleThreadOrder ==
  /\ Len(st_exec) = st_i
  /\ Len(st_calls) = st_i
  /\ \A k \in 1..Len(st_exec) :
       /\ st_exec[k] = [index |-> k - 1, zip_file_path |-> ArchivePath]
       /\ st_calls[k] = CallTuple(k - 1)
  /\ (index_pc \notin {"idle", "st"} /\ file_opens /\ unreadable = {}) =>
       /\ st_result = "ok"
       /\ Len(st_exec) = Len(archive)

\* index_zip_single_thread has returned success on three readable entries.
C16_Witness ==
  /\ st_result = "ok"
  /\ unreadable = {}
  /\ Len(archive) = 3
  /\ Len(st_exec) = 3

(***************************************************************************)
(* Parallel indexing, of one archive (index_zip_multi_thread) or of the    *)
(* archives of a tree (index_zip_dir): one program run does one of them.   *)
(***************************************************************************)
ParallelIndexInit == IndexSpecInit \/ ServeSpecInit

ParallelIndexNext == IndexNext \/ ServeNext

ParallelIndexSpec == ParallelIndexInit /\ [][ParallelIndexNext]_vars

\* The tasks that are inside ZipCallback::exec.
ChildrenInExec == {w \in Children : children[w].pc = "cb"}

WorkersInExec == {w \in Workers : workers[w].pc = "locked"}

\* C17: at most one task is executing the shared callback, and the task that
\* is executing it holds the callback's mutex.
C17_CallbackSerialized ==
  /\ Cardinality(ChildrenInExec) <= 1
  /\ Cardinality(WorkersInExec) <= 1
  /\ \A w \in ChildrenInExec : cb_lock = {w}
  /\ \A w \in WorkersInExec : zip_cb_lock = {w}

\* One worker of index_zip_dir holds the callback while another, with an
\* archive of its own in hand, waits for it.
C17_Witness ==
  \E w1, w2 \in Workers :
    /\ w1 # w2
    /\ workers[w1].pc = "locked"
    /\ workers[w2].pc = "index"
    /\ workers[w1].fname # workers[w2].fname

(***************************************************************************)
(* Properties of failures while indexing.                                  *)
(***************************************************************************)
\* C18: when a child of index_zip_multi_thread has failed, the function,
\* having awaited every child, returns an error and not an elapsed time.
C18_FirstErrorReturned ==
  (index_pc = "finished" /\ \E w \in Children : children[w].pc = "err") =>
    mt_result = "err"

\* The archives index_zip_dir collected that have no damaged entry.
SoundArchives ==
  {NodePath(n) : n \in {m \in tree : Extension(NodePath(m)) = Str_zip /\ m.bad = -1
                                      /\ NodePath(m) \in zip_visited}}

IndexedArchives == UNION {workers[w].indexed : w \in Workers}

\* C19: when index_zip_single_thread has failed on an archive inside a
\* worker of index_zip_dir, index_zip_dir returns an error once the workers
\* are joined, and every other archive of the pool has been indexed.
C19_FailureSurfaces ==
  (serve_pc = "ready" /\ \E w \in Workers : workers[w].pc = "err") =>
    /\ index_dir_result = "err"
    /\ SoundArchives \subseteq IndexedArchives


\* Some consumer has returned an I/O error.
ConsumerFailed == \E c \in Consumers : receivers[c].pc = "failed"

\* C20: once a split consumer has failed with an I/O error, the run does
\* not report "Split completed" and is not stuck: it still has a step to
\* take until it has exited with status 1.
C20_FailureReported ==
  ConsumerFailed =>
    /\ split_pc # "completed"
    /\ split_pc = "exit" \/ ENABLED SplitFaultNext

\* The indices index_zip_single_thread has handed to the callback, in order.
StIndices == [k \in 1..Len(st_exec) |-> st_exec[k].index]

\* C21: once index_zip_single_thread has returned, if the archive could
\* not be opened it has returned an error and the callback was never
\* invoked; if entry i is the unreadable one it has returned an error and
\* the callback was invoked for exactly the indices 0..i-1, in that order.
C21_FailFast ==
  st_result # NoValue =>
    /\ ~file_opens => st_result = "err" /\ st_exec = <<>> /\ st_calls = <<>>
    /\ \A i \in unreadable :
         /\ st_result = "err"
         /\ StIndices = [k \in 1..i |-> k - 1]
         /\ Len(st_calls) = i

\* A four-entry archive whose entry 2 is unreadable: the single-threaded
\* run has returned its error after two invocations.
C21_Witness ==
  /\ st_result = "err"
  /\ Len(archive) = 4
  /\ unreadable = {2}
  /\ Len(st_exec) = 2

\* The archive paths index_zip_dir's walk has pushed on the pool.
CollectedArchives ==
  {NodePath(n) : n \in {m \in tree : Extension(NodePath(m)) = Str_zip
                                      /\ NodePath(m) \in zip_visited}}

\* The workers that hold archive p between its pop and the return of
\* index_zip_single_thread.
WorkersOn(p) == {w \in Workers : workers[w].pc \in {"index", "locked"} /\ workers[w].fname = p}

\* A step of index_zip_dir once its workers are spawned.
IndexDirStep ==
  \/ IndexJoin
  \/ \E w \in Workers : WorkerPop(w) \/ WorkerLock(w) \/ WorkerCallback(w)

\* index_zip_dir has spawned at least one worker on a pool of readable
\* archives.
C22_AllReadable == index_core_num >= 1 /\ CollectedArchives = SoundArchives

\* Each collected archive is in exactly one place: the pool, one worker's
\* hands, or one worker's finished set; no worker has failed or has left
\* its loop while the pool holds a path; at the join every worker has left
\* its loop and every collected archive is indexed.
C22_OnePlace ==
  (serve_pc \in {"indexing", "ready"} /\ C22_AllReadable) =>
    /\ \A p \in CollectedArchives :
         Occurrences(zip_files, p) + Cardinality(WorkersOn(p))
           + Cardinality({w \in Workers : p \in workers[w].indexed}) = 1
    /\ \A w \in Workers : workers[w].pc # "err"
    /\ \A w \in Workers : workers[w].pc = "done" => zip_files = <<>>
    /\ serve_pc = "ready" =>
         /\ \A w \in Workers : workers[w].pc = "done"
         /\ zip_files = <<>>
         /\ IndexedArchives = CollectedArchives

\* C22: in index_zip_dir with at least one worker and every archive
\* readable, under every interleaving each collected archive is popped by
\* exactly one worker and indexed exactly once, no worker leaves its loop
\* while the pool is non-empty, and the workers all terminate: the join is
\* reached with the pool empty.
C22_PoolDrained ==
  /\ []C22_OnePlace
  /\ (serve_pc = "indexing" /\ C22_AllReadable) ~> (serve_pc = "ready")

\* Two workers have been joined after each has indexed one of the two
\* collected archives.
C22_Witness ==
  /\ serve_pc = "ready"
  /\ index_core_num = 2
  /\ Cardinality(CollectedArchives) = 2
  /\ \A w \in Workers : Cardinality(workers[w].indexed) = 1

\* The host entries the walk has handed to iter_dir_cb that are not archives.
HostEntriesSeen == {p \in host_visited : Extension(p) # Str_zip}

\* C23: while the host walk runs, the keys of the database are the paths
\* of the non-archive entries it has visited, each relative to the served
\* root, at whatever level the entry lies.
C23_HostKeyRootRelative ==
  serve_pc = "host_walk" =>
    DOMAIN file_db = {HostKey(Root, p) : p \in HostEntriesSeen}

\* The directory of archive f relative to the served root.
ArchiveDir(f) == StripPrefix((CHOOSE n \in tree : NodePath(n) = f).parent, Root)

\* Directory d joined with entry name e: a directory entry's trailing
\* separator stripped, backslashes turned into '/'.
JoinedKey(d, e) ==
  LET name == ReplaceBackslash(IF EntryIsDir(e) THEN SubSeq(e, 1, Len(e) - 1) ELSE e)
  IN IF d = <<>> THEN name ELSE d \o <<"/">> \o name

\* C24: each time the archive callback runs on entry i, named e, of an
\* archive f, the database afterwards holds, under the archive's
\* root-relative directory joined with e, an archive FileIndex that carries
\* f and i.
C24_ArchiveKey ==
  [][\A w \in Workers :
       (workers[w].pc = "locked" /\ workers'[w].pc # "locked"
          /\ EntryReadable(workers[w].fname, workers[w].i)) =>
         LET f == workers[w].fname
             i == workers[w].i
             e == ZipEntries(f)[i + 1]
             key == JoinedKey(ArchiveDir(f), e)
         IN /\ key \in DOMAIN file_db'
            /\ file_db'[key] = FileIndexNew(TRUE, EntryIsDir(e), f, i)]_vars

\* The SortKey of the entry a FileSend carries.
KeyOfIndex(i) == SortKey(input[i + 1], sort_by)

\* What the producer has put on the channel so far, in order.
PutSeq ==
  [k \in 1..(sent + shut_sent) |-> IF k <= sent THEN FileSend(SendOrder[k]) ELSE Shutdown]

\* C25: the producer's FileSends go out in strictly increasing SortKey
\* order and its Shutdowns only after the last FileSend; the channel hands
\* the messages over in the order they were put, so the FileSends taken, over
\* all consumers, are in strictly increasing SortKey order and none is taken
\* after a Shutdown has been taken.
C25_SortKeyOrder ==
  sort_by \in {"name", "size", "time"} =>
    /\ \A p, q \in 1..Len(SendOrder) :
         p < q => StrLess(KeyOfIndex(SendOrder[p]), KeyOfIndex(SendOrder[q]))
    /\ shut_sent > 0 => sent = Len(SendOrder)
    /\ received \o chan = PutSeq
    /\ \A p, q \in 1..Len(received) :
         p < q =>
           /\ received[p].type = "Shutdown" => received[q].type = "Shutdown"
           /\ (received[p].type = "FileSend" /\ received[q].type = "FileSend") =>
                StrLess(KeyOfIndex(received[p].index), KeyOfIndex(received[q].index))

\* Two consumers have each written one of two entries taken from a channel
\* of capacity 1, and both have then taken their Shutdown.
C25_Witness ==
  /\ core_num = 2
  /\ channel_size = 1
  /\ Len(received) = 4
  /\ received[3].type = "Shutdown"
  /\ \A c \in Consumers : Len(receivers[c].out) = 1

\* The keys iter_dir_cb inserts for the entries of the tree it reaches.
HostKeysOf(nodes) ==
  {HostKey(n.parent, NodePath(n)) : n \in {m \in nodes : Extension(NodePath(m)) # Str_zip}}

\* The keys the archive callback inserts for the entries of archive f.
ArchiveKeysOf(f) == {ArchiveKey(Root, f, ZipEntries(f)[i]) : i \in 1..Len(ZipEntries(f))}

\* The keys both passes are going to insert when each walks the first level.
SharedKeys ==
  HostKeysOf(ReadDir(Root))
    \cap UNION {ArchiveKeysOf(NodePath(z)) :
                z \in {m \in ReadDir(Root) : Extension(NodePath(m)) = Str_zip}}

\* A step of the archive-indexing pass: index_zip_dir's walk or its workers.
ArchivePassStep == CollectVisit \/ CollectReturn \/ IndexDirStep

\* C26: the host-walking pass and the archive-indexing pass run
\* concurrently: while the host walk still has entries to visit and there
\* is a key both passes insert, the archive pass can take a step, so that it
\* may reach the key first.
C26_PassesConcurrent ==
  (serve_pc = "host_walk" /\ SharedKeys # {} /\ index_core_num >= 1) =>
    ENABLED ArchivePassStep

\* What holds instead: at every key both passes have inserted, the first
\* insertion was the host's and the stored entry is the archive's.
C26_HostInsertsFirst ==
  serve_pc = "ready" =>
    \A k \in HostKeysOf({n \in tree : NodePath(n) \in host_visited})
             \cap UNION {ArchiveKeysOf(f) : f \in IndexedArchives} :
      /\ first_writer[k].flags \in {0, 16}
      /\ file_db[k].flags \in {1, 17}

\* C27: index_zip_multi_thread never faults on its arithmetic, and on an
\* archive that opens with zero entries, or with a requested worker count of
\* zero, it returns an elapsed time without having invoked the callback.
C27_NoArithmeticFault ==
  /\ index_pc # "panicked"
  /\ (index_pc \notin {"st", "mt"} /\ file_opens /\ (Len(archive) = 0 \/ worker = 0)) =>
       /\ index_pc = "finished"
       /\ mt_result = "ok"
       /\ mt_calls = <<>>

=============================================================================
